---- MODULE Spec2Model ----
(***************************************************************************)
(* Model of package rebalancer (pdbrito/rebalancer): the global pricelist, *)
(* portfolio / index validation, account construction and the Rebalance    *)
(* calculation.  Decimals are shopspring/decimal values: an integer        *)
(* coefficient c and a scale s, denoting c / 10^s.  Add, Sub and Mul are   *)
(* exact; Div rounds the quotient half away from zero to DivisionPrecision *)
(* decimal places (the library's DivRound).                                *)
(***************************************************************************)
EXTENDS Integers, FiniteSets, Sequences, TLC

(***************************************************************************)
(* Bounds of the model.                                                    *)
(***************************************************************************)
\* Decimal places kept by Decimal.Div.  The library keeps 16; the model keeps
\* fewer so that coefficients stay within TLC's integers.  Quotients that do
\* not terminate (x / 3) and operands with more places than the precision
\* exist at every precision.
DivisionPrecision == 2
\* Generic prices are the integers 1..MaxPrice.
MaxPrice == 2
\* Generic amounts are the integers 1..MaxAmount.
MaxAmount == 2

(***************************************************************************)
(* decimal.Decimal                                                         *)
(***************************************************************************)
Dec(c, s) == [c |-> c, s |-> s]

Zero == Dec(0, 0)

One == Dec(1, 0)

RECURSIVE Pow10(_)
Pow10(n) == IF n <= 0 THEN 1 ELSE 10 * Pow10(n - 1)

MaxOf(x, y) == IF x >= y THEN x ELSE y

AbsInt(x) == IF x < 0 THEN -x ELSE x

SignInt(x) == IF x < 0 THEN -1 ELSE IF x > 0 THEN 1 ELSE 0

\* Integer quotient truncated toward zero (big.Int.QuoRem).
QuoInt(x, y) == SignInt(x) * SignInt(y) * (AbsInt(x) \div AbsInt(y))

\* Coefficient of d at scale s (s >= d.s).
Rescale(d, s) == d.c * Pow10(s - d.s)

DAdd(a, b) ==
    LET s == MaxOf(a.s, b.s) IN Dec(Rescale(a, s) + Rescale(b, s), s)

DSub(a, b) ==
    LET s == MaxOf(a.s, b.s) IN Dec(Rescale(a, s) - Rescale(b, s), s)

DMul(a, b) == Dec(a.c * b.c, a.s + b.s)

DAbs(a) == Dec(AbsInt(a.c), a.s)

DIsNegative(a) == a.c < 0

DCmp(a, b) ==
    LET s == MaxOf(a.s, b.s) IN SignInt(Rescale(a, s) - Rescale(b, s))

DEqual(a, b) == DCmp(a, b) = 0

DLessThan(a, b) == DCmp(a, b) < 0

\* Decimal.Div(d2) = DivRound(d2, DivisionPrecision): the quotient truncated
\* to DivisionPrecision places, then moved one unit in the last place away
\* from zero when twice the remainder reaches the divisor.  The divisor is
\* not zero (the library panics on a zero divisor).
DDiv(a, b) ==
    LET e  == b.s - a.s + DivisionPrecision
        aa == IF e >= 0 THEN a.c * Pow10(e) ELSE a.c
        bb == IF e < 0 THEN b.c * Pow10(-e) ELSE b.c
        q  == QuoInt(aa, bb)
        r  == aa - q * bb
        up == 2 * AbsInt(r) >= AbsInt(bb)
        adj == IF ~up THEN 0 ELSE IF SignInt(a.c) * SignInt(b.c) < 0 THEN -1 ELSE 1
    IN  Dec(q + adj, DivisionPrecision)

(***************************************************************************)
(* Assets and maps                                                         *)
(***************************************************************************)
\* strings.ToUpper on the asset names of the model.
ToUpper(asset) ==
    CASE asset = "eth" -> "ETH"
      [] asset = "btc" -> "BTC"
      [] OTHER -> asset

EmptyMap == [a \in {} |-> Zero]

\* A Go map lookup without the ok flag: the zero Decimal for a missing key.
Lookup(m, asset) == IF asset \in DOMAIN m THEN m[asset] ELSE Zero

(***************************************************************************)
(* Errors                                                                  *)
(***************************************************************************)
Err(kind) == [kind |-> kind, asset |-> "", amount |-> Zero]

Nil == Err("nil")

ErrInvalidAsset == Err("ErrInvalidAsset")

ErrInvalidAssetAmount(asset, amount) ==
    [kind |-> "ErrInvalidAssetAmount", asset |-> asset, amount |-> amount]

ErrEmptyPricelist == Err("ErrEmptyPricelist")

ErrAssetMissingFromPricelist == Err("ErrAssetMissingFromPricelist")

ErrEmptyPortfolio == Err("ErrEmptyPortfolio")

ErrEmptyIndex == Err("ErrEmptyIndex")

ErrIndexSumIncorrect == Err("ErrIndexSumIncorrect")

\* src/balancer.go
ErrEmptyHoldings == Err("ErrEmptyHoldings")

NotPositive(d) == DLessThan(d, Zero) \/ DEqual(d, Zero)

(***************************************************************************)
(* Inputs                                                                  *)
(***************************************************************************)
UpperAssets == {"ETH", "BTC"}

\* Every map from a subset of keys to values.
Maps(keys, values) == UNION {[K -> values] : K \in SUBSET keys}

\* README.md "Rebalancing": SetPricelist / NewAccount / the two-asset index.
ReadmePricelist == [a \in {"ETH", "BTC"} |-> IF a = "ETH" THEN Dec(200, 0) ELSE Dec(5000, 0)]

ReadmePortfolio == [a \in {"ETH", "BTC"} |-> IF a = "ETH" THEN Dec(20, 0) ELSE Dec(5, 1)]

\* README.md "Rebalancing into new assets".
NewAssets == {"ETH", "BTC", "IOTA", "BAT", "XLM"}

NewAssetsPricelist ==
    [a \in NewAssets |->
        CASE a = "ETH"  -> Dec(200, 0)
          [] a = "BTC"  -> Dec(2000, 0)
          [] a = "IOTA" -> Dec(3, 1)
          [] a = "BAT"  -> Dec(12, 2)
          [] a = "XLM"  -> Dec(2, 1)]

NewAssetsPortfolio == [a \in {"ETH"} |-> Dec(42, 0)]

NewAssetsIndex == [a \in NewAssets |-> Dec(2, 1)]

\* A price that makes quotients that do not terminate.
ThirdsPricelist == [a \in UpperAssets |-> IF a = "ETH" THEN Dec(3, 0) ELSE One]

\* An amount with one decimal place more than Div keeps.
FineAmount == Dec(5, DivisionPrecision + 1)

PricelistInputs ==
    Maps(UpperAssets, {Dec(k, 0) : k \in 1..MaxPrice})
    \cup {ReadmePricelist, NewAssetsPricelist, ThirdsPricelist}
    \cup {[a \in {"ETH"} |-> Zero], [a \in {"ETH"} |-> Dec(-1, 0)],
          [a \in {"eth"} |-> One], [a \in {"ETH", "eth"} |-> One]}

PortfolioInputs ==
    Maps(UpperAssets, {Dec(k, 0) : k \in 1..MaxAmount})
    \cup {ReadmePortfolio, NewAssetsPortfolio, [a \in UpperAssets |-> FineAmount]}
    \cup {[a \in {"ETH"} |-> Zero], [a \in {"ETH"} |-> Dec(-5, 0)],
          [a \in {"eth"} |-> One], [a \in {"ETH", "eth"} |-> One],
          [a \in {"XLM"} |-> One]}

IndexInputs ==
    Maps(UpperAssets, {Dec(3, 1), Dec(5, 1), Dec(7, 1), Dec(10, 1)})
    \cup {NewAssetsIndex, [a \in UpperAssets |-> Dec(2, 1)],
          [a \in UpperAssets |-> IF a = "ETH" THEN Dec(75, 2) ELSE Dec(25, 2)],
          [a \in UpperAssets |-> IF a = "ETH" THEN Dec(15, 1) ELSE Dec(-5, 1)],
          [a \in UpperAssets |-> IF a = "ETH" THEN One ELSE Zero],
          [a \in {"eth"} |-> One], [a \in {"ETH", "eth"} |-> Dec(5, 1)],
          [a \in {"XLM"} |-> One]}

(***************************************************************************)
(* State                                                                   *)
(***************************************************************************)
VARIABLES
    globalPricelist,   \* var globalPricelist
    account,           \* the Account value the caller holds
    ret,               \* what the last call was given and what it returned
    call               \* the Rebalance call in progress, when it runs stepwise

vars == <<globalPricelist, account, ret, call>>

\* Account{}: the zero value, also returned with every error of NewAccount.
ZeroAccount == [portfolio |-> EmptyMap, value |-> Zero]

Ret(op, arg, err, val) == [op |-> op, arg |-> arg, err |-> err, val |-> val]

\* A Rebalance call: where it is (pc), its argument, the entries its current
\* loop has still to range over, the trades made so far, and the values of
\* globalPricelist it has read.
Call(pc, index, todo, trades, seen) ==
    [pc |-> pc, index |-> index, todo |-> todo, trades |-> trades, seen |-> seen]

\* No call in progress; seen keeps what the call that last returned had read.
Returned(seen) == Call("idle", EmptyMap, {}, EmptyMap, seen)

(***************************************************************************)
(* Validation.  A Go map is ranged over in an unspecified order and the    *)
(* loop returns at the first entry that fails, so any failing entry can be *)
(* the one reported: each validator yields the set of errors it can return.*)
(***************************************************************************)
\* Variant: the case of a key is not looked at.
PricelistEntryErrAnyCase(asset, price) ==
    IF NotPositive(price) THEN ErrInvalidAssetAmount(asset, price)
    ELSE Nil

\* Variant: only a price of zero is refused.
PricelistEntryErrZeroOnly(asset, price) ==
    IF DEqual(price, Zero) THEN ErrInvalidAssetAmount(asset, price)
    ELSE IF asset # ToUpper(asset) THEN ErrInvalidAsset
    ELSE Nil

PricelistEntryErr(asset, price) ==
    IF NotPositive(price) THEN ErrInvalidAssetAmount(asset, price)
    ELSE IF asset # ToUpper(asset) THEN ErrInvalidAsset
    ELSE Nil

SetPricelistErrs(pricelist) ==
    IF DOMAIN pricelist = {} THEN {ErrEmptyPricelist}
    ELSE LET bad == {PricelistEntryErr(a, pricelist[a]) : a \in DOMAIN pricelist} \ {Nil}
         IN  IF bad = {} THEN {Nil} ELSE bad

\* Variant: the case of the key is not checked.
PortfolioEntryErrNoCase(asset, amount, pl) ==
    IF asset \notin DOMAIN pl THEN ErrAssetMissingFromPricelist
    ELSE IF NotPositive(amount) THEN ErrInvalidAssetAmount(asset, amount)
    ELSE Nil

\* Variant: an amount of zero is let through.
PortfolioEntryErrZeroOk(asset, amount, pl) ==
    IF asset # ToUpper(asset) THEN ErrInvalidAsset
    ELSE IF asset \notin DOMAIN pl THEN ErrAssetMissingFromPricelist
    ELSE IF DLessThan(amount, Zero) THEN ErrInvalidAssetAmount(asset, amount)
    ELSE Nil

PortfolioEntryErr(asset, amount, pl) ==
    IF asset # ToUpper(asset) THEN ErrInvalidAsset
    ELSE IF asset \notin DOMAIN pl THEN ErrAssetMissingFromPricelist
    ELSE IF NotPositive(amount) THEN ErrInvalidAssetAmount(asset, amount)
    ELSE Nil

NewPortfolioErrs(portfolio, pl) ==
    IF DOMAIN portfolio = {} THEN {ErrEmptyPortfolio}
    ELSE LET bad == {PortfolioEntryErr(a, portfolio[a], pl) : a \in DOMAIN portfolio} \ {Nil}
         IN  IF bad = {} THEN {Nil} ELSE bad

\* Variant: the value is checked before the pricelist is consulted.
IndexEntryErrAmountFirst(asset, percentage, pl) ==
    IF asset # ToUpper(asset) THEN ErrInvalidAsset
    ELSE IF NotPositive(percentage) THEN ErrInvalidAssetAmount(asset, percentage)
    ELSE IF asset \notin DOMAIN pl THEN ErrAssetMissingFromPricelist
    ELSE Nil

\* Variant: the value of an entry is not looked at.
IndexEntryErrAnyAmount(asset, percentage, pl) ==
    IF asset # ToUpper(asset) THEN ErrInvalidAsset
    ELSE IF asset \notin DOMAIN pl THEN ErrAssetMissingFromPricelist
    ELSE Nil

IndexEntryErr(asset, percentage, pl) ==
    IF asset # ToUpper(asset) THEN ErrInvalidAsset
    ELSE IF asset \notin DOMAIN pl THEN ErrAssetMissingFromPricelist
    ELSE IF NotPositive(percentage) THEN ErrInvalidAssetAmount(asset, percentage)
    ELSE Nil

\* indexTotal after the loop has added every entry.
RECURSIVE IndexTotal(_, _)
IndexTotal(S, index) ==
    IF S = {} THEN Zero
    ELSE LET a == CHOOSE x \in S : TRUE
         IN  DAdd(IndexTotal(S \ {a}, index), index[a])

\* Variant: accepts every total up to one.
IndexSumErrAtMostOne(index) ==
    IF DLessThan(One, IndexTotal(DOMAIN index, index)) THEN ErrIndexSumIncorrect ELSE Nil

IndexSumErr(index) ==
    IF ~DEqual(IndexTotal(DOMAIN index, index), One) THEN ErrIndexSumIncorrect ELSE Nil

\* Variant: an empty index goes on to the sum check.
NewIndexErrsNoEmptyCheck(index, pl) ==
    LET bad == {IndexEntryErr(a, index[a], pl) : a \in DOMAIN index} \ {Nil}
    IN  IF bad = {} THEN {IndexSumErr(index)} ELSE bad

NewIndexErrs(index, pl) ==
    IF DOMAIN index = {} THEN {ErrEmptyIndex}
    ELSE LET bad == {IndexEntryErr(a, index[a], pl) : a \in DOMAIN index} \ {Nil}
         IN  IF bad = {} THEN {IndexSumErr(index)} ELSE bad

(***************************************************************************)
(* Valuation and the rebalancing calculation                               *)
(***************************************************************************)
\* Variant: sums the amounts without their prices.
RECURSIVE TotalValueNoPrice(_, _, _)
TotalValueNoPrice(S, portfolio, pl) ==
    IF S = {} THEN Zero
    ELSE LET a == CHOOSE x \in S : TRUE
         IN  DAdd(TotalValueNoPrice(S \ {a}, portfolio, pl), portfolio[a])

\* The totalValue loop of NewAccount.
RECURSIVE TotalValue(_, _, _)
TotalValue(S, portfolio, pl) ==
    IF S = {} THEN Zero
    ELSE LET a == CHOOSE x \in S : TRUE
         IN  DAdd(TotalValue(S \ {a}, portfolio, pl), DMul(Lookup(pl, a), portfolio[a]))

\* Variant: never subtracts the amount already held.
AmountRequiredNoHolding(a, asset, percentage, pl) ==
    DDiv(DMul(a.value, percentage), Lookup(pl, asset))

\* Variant: an asset that is not held needs nothing.
AmountRequiredHeldOnly(a, asset, percentage, pl) ==
    IF asset \in DOMAIN a.portfolio
    THEN DSub(DDiv(DMul(a.value, percentage), Lookup(pl, asset)), a.portfolio[asset])
    ELSE Zero

\* Variant: the amount held is taken off twice.
AmountRequiredLessTwice(a, asset, percentage, pl) ==
    LET target == DDiv(DMul(a.value, percentage), Lookup(pl, asset))
    IN  IF asset \in DOMAIN a.portfolio
        THEN DSub(DSub(target, a.portfolio[asset]), a.portfolio[asset])
        ELSE target

\* amountRequired of one asset of the target index.
AmountRequired(a, asset, percentage, pl) ==
    LET target == DDiv(DMul(a.value, percentage), Lookup(pl, asset))
    IN  IF asset \in DOMAIN a.portfolio
        THEN DSub(target, a.portfolio[asset])
        ELSE target

Trade(action, amount) == [Action |-> action, Amount |-> amount]

\* Variant: a zero amountRequired is a sell.
MakeTradeZeroSells(amountRequired) ==
    IF NotPositive(amountRequired)
    THEN Trade("sell", DAbs(amountRequired))
    ELSE Trade("buy", DAbs(amountRequired))

\* Variant: the sell amount keeps its sign.
MakeTradeNoAbs(amountRequired) ==
    IF DIsNegative(amountRequired)
    THEN Trade("sell", amountRequired)
    ELSE Trade("buy", amountRequired)

MakeTrade(amountRequired) ==
    IF DIsNegative(amountRequired)
    THEN Trade("sell", DAbs(amountRequired))
    ELSE Trade("buy", DAbs(amountRequired))

\* Variant: also sells off the held assets the index does not name.
RebalanceTradesAllHeld(a, targetIndex, pl) ==
    [asset \in DOMAIN targetIndex \cup DOMAIN a.portfolio |->
        IF asset \in DOMAIN targetIndex
        THEN MakeTrade(AmountRequired(a, asset, targetIndex[asset], pl))
        ELSE Trade("sell", a.portfolio[asset])]

\* Variant: the total value is worked out again from the prices in force.
RebalanceTradesRevalued(a, targetIndex, pl) ==
    [asset \in DOMAIN targetIndex |->
        MakeTrade(AmountRequired(
            [a EXCEPT !.value = TotalValue(DOMAIN a.portfolio, a.portfolio, pl)],
            asset, targetIndex[asset], pl))]

RebalanceTrades(a, targetIndex, pl) ==
    [asset \in DOMAIN targetIndex |->
        MakeTrade(AmountRequired(a, asset, targetIndex[asset], pl))]

(***************************************************************************)
(* Operations                                                              *)
(***************************************************************************)
Init ==
    /\ globalPricelist = EmptyMap
    /\ account = ZeroAccount
    /\ ret = Ret("init", EmptyMap, Nil, EmptyMap)
    /\ call = Returned({})

\* Variant: installing a pricelist also revalues the account.
SetPricelistRevaluesAccount(pricelist) ==
    \E err \in SetPricelistErrs(pricelist) :
        /\ globalPricelist' = IF err = Nil THEN pricelist ELSE globalPricelist
        /\ ret' = Ret("SetPricelist", pricelist, err, EmptyMap)
        /\ account' = IF err = Nil
                      THEN [account EXCEPT !.value =
                               TotalValue(DOMAIN account.portfolio, account.portfolio, pricelist)]
                      ELSE account
        /\ UNCHANGED call

\* Variant: a refused pricelist leaves the global pricelist empty.
SetPricelistClearsOnError(pricelist) ==
    \E err \in SetPricelistErrs(pricelist) :
        /\ globalPricelist' = IF err = Nil THEN pricelist ELSE EmptyMap
        /\ ret' = Ret("SetPricelist", pricelist, err, EmptyMap)
        /\ UNCHANGED <<account, call>>

SetPricelist(pricelist) ==
    \E err \in SetPricelistErrs(pricelist) :
        /\ globalPricelist' = IF err = Nil THEN pricelist ELSE globalPricelist
        /\ ret' = Ret("SetPricelist", pricelist, err, EmptyMap)
        /\ UNCHANGED <<account, call>>

\* Variant: the global pricelist is left as it is.
ClearKeepsPricelist ==
    /\ ret' = Ret("ClearGlobalPricelist", EmptyMap, Nil, EmptyMap)
    /\ UNCHANGED <<globalPricelist, account, call>>

ClearGlobalPricelist ==
    /\ globalPricelist' = EmptyMap
    /\ ret' = Ret("ClearGlobalPricelist", EmptyMap, Nil, EmptyMap)
    /\ UNCHANGED <<account, call>>

GlobalPricelist ==
    /\ ret' = Ret("GlobalPricelist", EmptyMap, Nil, globalPricelist)
    /\ UNCHANGED <<globalPricelist, account, call>>

NewPortfolio(portfolio) ==
    \E err \in NewPortfolioErrs(portfolio, globalPricelist) :
        /\ ret' = Ret("NewPortfolio", portfolio, err,
                      IF err = Nil THEN portfolio ELSE EmptyMap)
        /\ UNCHANGED <<globalPricelist, account, call>>

\* Variant: the portfolio is validated before the pricelist is looked at.
NewAccountErrsPortfolioFirst(portfolio, pl) ==
    IF NewPortfolioErrs(portfolio, pl) # {Nil} THEN NewPortfolioErrs(portfolio, pl)
    ELSE IF DOMAIN pl = {} THEN {ErrEmptyPricelist}
    ELSE {Nil}

NewAccountErrs(portfolio, pl) ==
    IF DOMAIN pl = {} THEN {ErrEmptyPricelist} ELSE NewPortfolioErrs(portfolio, pl)

NewAccount(portfolio) ==
    \E err \in NewAccountErrs(portfolio, globalPricelist) :
        /\ account' = IF err = Nil
                      THEN [portfolio |-> portfolio,
                            value |-> TotalValue(DOMAIN portfolio, portfolio, globalPricelist)]
                      ELSE ZeroAccount
        /\ ret' = Ret("NewAccount", portfolio, err, EmptyMap)
        /\ UNCHANGED <<globalPricelist, call>>

NewIndex(index) ==
    \E err \in NewIndexErrs(index, globalPricelist) :
        /\ ret' = Ret("NewIndex", index, err, IF err = Nil THEN index ELSE EmptyMap)
        /\ UNCHANGED <<globalPricelist, account, call>>

\* Variant: the trade map is returned next to the error.
RebalanceReturnsTradesOnError(targetIndex) ==
    \E err \in NewIndexErrs(targetIndex, globalPricelist) :
        /\ ret' = Ret("Rebalance", targetIndex, err,
                      IF err = Nil
                      THEN RebalanceTrades(account, targetIndex, globalPricelist)
                      ELSE [a \in DOMAIN targetIndex |-> Trade("buy", Zero)])
        /\ UNCHANGED <<globalPricelist, account, call>>

\* Variant: the trades are carried out on the account's portfolio.
RebalanceExecutesTrades(targetIndex) ==
    \E err \in NewIndexErrs(targetIndex, globalPricelist) :
        LET trades == RebalanceTrades(account, targetIndex, globalPricelist)
        IN  /\ ret' = Ret("Rebalance", targetIndex, err,
                          IF err = Nil THEN trades ELSE EmptyMap)
            /\ account' = IF err = Nil
                          THEN [account EXCEPT !.portfolio =
                                   [a \in DOMAIN trades |->
                                       IF trades[a].Action = "sell"
                                       THEN DSub(Lookup(account.portfolio, a), trades[a].Amount)
                                       ELSE DAdd(Lookup(account.portfolio, a), trades[a].Amount)]]
                          ELSE account
            /\ UNCHANGED <<globalPricelist, call>>

Rebalance(targetIndex) ==
    \E err \in NewIndexErrs(targetIndex, globalPricelist) :
        /\ ret' = Ret("Rebalance", targetIndex, err,
                      IF err = Nil
                      THEN RebalanceTrades(account, targetIndex, globalPricelist)
                      ELSE EmptyMap)
        /\ UNCHANGED <<globalPricelist, account, call>>

Next ==
    \/ \E pricelist \in PricelistInputs : SetPricelist(pricelist)
    \/ ClearGlobalPricelist
    \/ GlobalPricelist
    \/ \E portfolio \in PortfolioInputs : NewPortfolio(portfolio)
    \/ \E portfolio \in PortfolioInputs : NewAccount(portfolio)
    \/ \E index \in IndexInputs : NewIndex(index)
    \/ \E index \in IndexInputs : Rebalance(index)

Spec == Init /\ [][Next]_vars

(***************************************************************************)
(* src/balancer.go: the balancer variant of the package.  Its pricelist    *)
(* functions are the same; holdings are validated by NewHoldings.          *)
(***************************************************************************)
HoldingsEntryErr(asset, holding) ==
    IF NotPositive(holding) THEN ErrInvalidAssetAmount(asset, holding)
    ELSE IF asset # ToUpper(asset) THEN ErrInvalidAsset
    ELSE Nil

NewHoldingsErrs(holdings) ==
    IF DOMAIN holdings = {} THEN {ErrEmptyHoldings}
    ELSE LET bad == {HoldingsEntryErr(a, holdings[a]) : a \in DOMAIN holdings} \ {Nil}
         IN  IF bad = {} THEN {Nil} ELSE bad

NewHoldings(holdings) ==
    \E err \in NewHoldingsErrs(holdings) :
        /\ ret' = Ret("NewHoldings", holdings, err,
                      IF err = Nil THEN holdings ELSE EmptyMap)
        /\ UNCHANGED <<globalPricelist, account, call>>

BalancerNewAccountErrs(holdings, pl) ==
    IF DOMAIN pl = {} THEN {ErrEmptyPricelist} ELSE NewHoldingsErrs(holdings)

BalancerNewAccount(holdings) ==
    \E err \in BalancerNewAccountErrs(holdings, globalPricelist) :
        /\ account' = IF err = Nil
                      THEN [portfolio |-> holdings,
                            value |-> TotalValue(DOMAIN holdings, holdings, globalPricelist)]
                      ELSE ZeroAccount
        /\ ret' = Ret("balancer.NewAccount", holdings, err, EmptyMap)
        /\ UNCHANGED <<globalPricelist, call>>

\* The errors Balance builds with fmt.Errorf.
ErrorfMissingFromPricelist(asset) ==
    [kind |-> "targetIndex contains asset missing from the pricelist",
     asset |-> asset, amount |-> Zero]

ErrorfSumIncorrect == Err("targetIndex should sum to 1")

\* Balance validates the index itself: membership of each key, then the sum.
BalanceErrs(targetIndex, pl) ==
    LET bad == {ErrorfMissingFromPricelist(a) : a \in DOMAIN targetIndex \ DOMAIN pl}
    IN  IF bad # {} THEN bad
        ELSE IF ~DEqual(IndexTotal(DOMAIN targetIndex, targetIndex), One)
        THEN {ErrorfSumIncorrect}
        ELSE {Nil}

Balance(targetIndex) ==
    \E err \in BalanceErrs(targetIndex, globalPricelist) :
        /\ ret' = Ret("Balance", targetIndex, err,
                      IF err = Nil
                      THEN RebalanceTrades(account, targetIndex, globalPricelist)
                      ELSE EmptyMap)
        /\ UNCHANGED <<globalPricelist, account, call>>

NextBalancer ==
    \/ \E pricelist \in PricelistInputs : SetPricelist(pricelist)
    \/ ClearGlobalPricelist
    \/ GlobalPricelist
    \/ \E holdings \in PortfolioInputs : NewHoldings(holdings)
    \/ \E holdings \in PortfolioInputs : BalancerNewAccount(holdings)
    \/ \E index \in IndexInputs : Balance(index)

SpecBalancer == Init /\ [][NextBalancer]_vars

(***************************************************************************)
(* Rebalance running next to SetPricelist and ClearGlobalPricelist.  The   *)
(* package takes no lock, so a call is a sequence of steps, one for each   *)
(* read of globalPricelist, and the other calls can run between them.      *)
(* globalPricelist is one word (a map reference) and no map is written     *)
(* after it is installed, so a racing read yields the map installed before *)
(* or after the write: the interleaving of whole reads and writes.         *)
(***************************************************************************)
ConcPricelistInputs == {ReadmePricelist, ThirdsPricelist, [a \in {"ETH"} |-> One]}

ConcPortfolioInputs == {ReadmePortfolio, [a \in {"ETH"} |-> One]}

ConcIndexInputs ==
    {EmptyMap,
     [a \in UpperAssets |-> Dec(5, 1)],
     [a \in UpperAssets |-> IF a = "ETH" THEN Dec(75, 2) ELSE Dec(25, 2)],
     [a \in UpperAssets |-> Dec(2, 1)],
     [a \in {"ETH", "eth"} |-> Dec(5, 1)]}

\* Decimal.Div panics on a zero divisor; the call does not return.
Panic == Err("panic")

\* Rebalance is called: NewIndex checks len(index) and starts its loop.
RebalanceEnter(targetIndex) ==
    /\ call.pc = "idle"
    /\ IF DOMAIN targetIndex = {}
       THEN /\ ret' = Ret("Rebalance", targetIndex, ErrEmptyIndex, EmptyMap)
            /\ call' = Returned({})
       ELSE /\ call' = Call("validate", targetIndex, DOMAIN targetIndex, EmptyMap, {})
            /\ UNCHANGED ret
    /\ UNCHANGED <<globalPricelist, account>>

\* One iteration of NewIndex's loop; after the last one, the sum check.
\* globalPricelist is read when the case check has passed.
NewIndexStep ==
    /\ call.pc = "validate"
    /\ \E asset \in call.todo :
        LET err   == IndexEntryErr(asset, call.index[asset], globalPricelist)
            seen  == IF asset = ToUpper(asset)
                     THEN call.seen \cup {globalPricelist}
                     ELSE call.seen
            rest  == call.todo \ {asset}
            fails == IF err # Nil THEN err
                     ELSE IF rest = {} THEN IndexSumErr(call.index)
                     ELSE Nil
        IN  IF fails # Nil
            THEN /\ ret' = Ret("Rebalance", call.index, fails, EmptyMap)
                 /\ call' = Returned(seen)
            ELSE /\ call' = IF rest = {}
                            THEN Call("calculate", call.index, DOMAIN call.index, EmptyMap, seen)
                            ELSE Call("validate", call.index, rest, EmptyMap, seen)
                 /\ UNCHANGED ret
    /\ UNCHANGED <<globalPricelist, account>>

\* One iteration of Rebalance's loop; after the last one, the return.
\* globalPricelist[asset] of a missing key is the zero Decimal.
RebalanceStep ==
    /\ call.pc = "calculate"
    /\ \E asset \in call.todo :
        LET seen   == call.seen \cup {globalPricelist}
            rest   == call.todo \ {asset}
            trades == call.trades @@
                      (asset :> MakeTrade(AmountRequired(account, asset,
                                                         call.index[asset],
                                                         globalPricelist)))
        IN  IF asset \notin DOMAIN globalPricelist
            THEN /\ ret' = Ret("Rebalance", call.index, Panic, EmptyMap)
                 /\ call' = Returned(seen)
            ELSE IF rest = {}
            THEN /\ ret' = Ret("Rebalance", call.index, Nil, trades)
                 /\ call' = Returned(seen)
            ELSE /\ call' = Call("calculate", call.index, rest, trades, seen)
                 /\ UNCHANGED ret
    /\ UNCHANGED <<globalPricelist, account>>

\* The account is built before the calls that race: Rebalance has a value
\* receiver, so the call in progress works on its own copy of the Account.
NewAccountBetweenCalls(portfolio) ==
    /\ call.pc = "idle"
    /\ NewAccount(portfolio)

NextConc ==
    \/ \E pricelist \in ConcPricelistInputs : SetPricelist(pricelist)
    \/ ClearGlobalPricelist
    \/ \E portfolio \in ConcPortfolioInputs : NewAccountBetweenCalls(portfolio)
    \/ \E index \in ConcIndexInputs : RebalanceEnter(index)
    \/ NewIndexStep
    \/ RebalanceStep

SpecConc == Init /\ [][NextConc]_vars

(***************************************************************************)
(* Vocabulary of the properties                                            *)
(***************************************************************************)
AssetOrder == <<"ETH", "BTC", "IOTA", "BAT", "XLM", "eth">>

\* Sum of quantity * price over the assets of holdings.
RECURSIVE MarketValueUpTo(_, _, _)
MarketValueUpTo(n, holdings, prices) ==
    IF n = 0 THEN Zero
    ELSE LET a == AssetOrder[n]
             rest == MarketValueUpTo(n - 1, holdings, prices)
         IN  IF a \in DOMAIN holdings
             THEN DAdd(rest, DMul(holdings[a], Lookup(prices, a)))
             ELSE rest

MarketValue(holdings, prices) == MarketValueUpTo(Len(AssetOrder), holdings, prices)

\* q has no digit beyond DivisionPrecision places.
HasDivisionPlaces(q) ==
    \/ q.s <= DivisionPrecision
    \/ q.c % Pow10(q.s - DivisionPrecision) = 0

\* q is num / den rounded to DivisionPrecision places, a tie going away from
\* zero: q * den is within half a unit of the last place (times den) of num.
IsRoundedQuotient(q, num, den) ==
    LET err2 == DMul(Dec(2, 0), DAbs(DSub(DMul(q, den), num)))
        ulp  == DMul(DAbs(den), Dec(1, DivisionPrecision))
    IN  /\ HasDivisionPlaces(q)
        /\ DCmp(err2, ulp) <= 0
        /\ DCmp(err2, ulp) = 0 => DCmp(DAbs(DMul(q, den)), DAbs(num)) > 0

\* The signed quantity change a trade stands for.
SignedAmount(t) == IF t.Action = "sell" THEN DSub(Zero, t.Amount) ELSE t.Amount

RebalanceOK == ret.op = "Rebalance" /\ ret.err = Nil

\* The account was built from its portfolio under the prices now in force.
AccountCurrent ==
    /\ DOMAIN account.portfolio # {}
    /\ DOMAIN account.portfolio \subseteq DOMAIN globalPricelist
    /\ DEqual(account.value, MarketValue(account.portfolio, globalPricelist))

ReadmeAccountRebalanced ==
    /\ RebalanceOK
    /\ globalPricelist = ReadmePricelist
    /\ account.portfolio = ReadmePortfolio
    /\ DEqual(account.value, Dec(6500, 0))
    /\ ret.arg = [a \in UpperAssets |-> IF a = "ETH" THEN Dec(3, 1) ELSE Dec(7, 1)]

NewAssetsAccountRebalanced ==
    /\ RebalanceOK
    /\ globalPricelist = NewAssetsPricelist
    /\ account.portfolio = NewAssetsPortfolio
    /\ DEqual(account.value, Dec(8400, 0))
    /\ ret.arg = NewAssetsIndex

\* The holdings after the trades are carried out: add on buy, subtract on
\* sell, one entry for each trade.
Execute(trades, portfolio) ==
    [asset \in DOMAIN trades |->
        IF trades[asset].Action = "sell"
        THEN DSub(Lookup(portfolio, asset), trades[asset].Amount)
        ELSE DAdd(Lookup(portfolio, asset), trades[asset].Amount)]

\* Sum of the weights of an index, in hundredths.
RECURSIVE HundredthsUpTo(_, _)
HundredthsUpTo(n, index) ==
    IF n = 0 THEN 0
    ELSE LET a == AssetOrder[n]
         IN  HundredthsUpTo(n - 1, index)
             + (IF a \in DOMAIN index THEN index[a].c * Pow10(2 - index[a].s) ELSE 0)

Hundredths(index) == HundredthsUpTo(Len(AssetOrder), index)

\* Every entry of the index passes the per-entry checks of NewIndex.
EntriesPass(index) ==
    \A a \in DOMAIN index :
        /\ a = ToUpper(a)
        /\ a \in DOMAIN globalPricelist
        /\ index[a].c > 0

IsTrade(t, action, amount) == t.Action = action /\ DEqual(t.Amount, amount)

(***************************************************************************)
(* Properties                                                              *)
(***************************************************************************)
\* C1: after a successful Rebalance the trade of every index asset A stands for
\* delta = (account value * weight[A] / globalPricelist[A]) - (amount held, 0 if
\* none), the quotient as Div rounds it; it is a sell of |delta| when delta is
\* negative and a buy of delta otherwise.  The README account (20 ETH, 0.5 BTC
\* at 200 and 5000, index 0.3 / 0.7) gives sell 10.25 ETH, buy 0.41 BTC.
C1_TradeIsDelta ==
    /\ RebalanceOK =>
         \A A \in DOMAIN ret.arg :
            /\ A \in DOMAIN ret.val
            /\ LET t     == ret.val[A]
                   delta == SignedAmount(t)
                   held  == Lookup(account.portfolio, A)
               IN  /\ t.Action \in {"buy", "sell"}
                   /\ ~DIsNegative(t.Amount)
                   /\ t.Action = "sell" <=> DIsNegative(delta)
                   /\ IsRoundedQuotient(DAdd(delta, held),
                                        DMul(account.value, ret.arg[A]),
                                        globalPricelist[A])
    /\ ReadmeAccountRebalanced =>
         /\ IsTrade(ret.val["ETH"], "sell", Dec(1025, 2))
         /\ IsTrade(ret.val["BTC"], "buy", Dec(41, 2))

C1_Witness ==
    /\ ReadmeAccountRebalanced
    /\ ret.val["ETH"].Action = "sell"
    /\ ret.val["BTC"].Action = "buy"

\* C2: after a successful Rebalance the keys of the trade map are exactly the
\* keys of the target index: a held asset the index does not name gets no trade.
C2_TradeKeysAreIndexKeys ==
    RebalanceOK => DOMAIN ret.val = DOMAIN ret.arg

C2_Witness ==
    /\ RebalanceOK
    /\ AccountCurrent
    /\ DOMAIN account.portfolio = {"ETH", "BTC"}
    /\ DOMAIN ret.arg = {"ETH"}
    /\ DOMAIN ret.val = {"ETH"}

\* C3: value conservation.  When the account is valued at the prices in force,
\* carrying out every trade of a successful Rebalance gives holdings whose
\* market value equals the market value before.
C3_ValueConserved ==
    (RebalanceOK /\ AccountCurrent) =>
        DEqual(MarketValue(Execute(ret.val, account.portfolio), globalPricelist),
               MarketValue(account.portfolio, globalPricelist))

\* C4: target match.  After the trades of a successful Rebalance are carried
\* out, the value of every index asset is exactly its weight times the
\* post-trade market value.
C4_TargetMatched ==
    (RebalanceOK /\ AccountCurrent) =>
        LET after == Execute(ret.val, account.portfolio)
            post  == MarketValue(after, globalPricelist)
        IN  \A A \in DOMAIN ret.arg :
                DEqual(DMul(after[A], globalPricelist[A]), DMul(ret.arg[A], post))

\* C5: an index asset whose delta is exactly zero (the rounded target quantity
\* is the amount held) still gets a trade, and that trade is a buy of 0.
C5_ZeroDeltaIsBuy ==
    RebalanceOK =>
        \A A \in DOMAIN ret.arg :
            IsRoundedQuotient(Lookup(account.portfolio, A),
                              DMul(account.value, ret.arg[A]),
                              globalPricelist[A])
            => /\ A \in DOMAIN ret.val
               /\ IsTrade(ret.val[A], "buy", Zero)

C5_Witness ==
    /\ RebalanceOK
    /\ AccountCurrent
    /\ \E A \in DOMAIN ret.arg \cap DOMAIN account.portfolio :
          /\ IsRoundedQuotient(account.portfolio[A],
                               DMul(account.value, ret.arg[A]),
                               globalPricelist[A])
          /\ IsTrade(ret.val[A], "buy", Zero)

\* C6: idempotence.  When the target index is the portfolio's own weighting
\* (same keys, weight * total value = amount * price for every held asset),
\* every trade of Rebalance has amount 0.
C6_OnTargetNoTrades ==
    ( /\ RebalanceOK
      /\ AccountCurrent
      /\ DOMAIN ret.arg = DOMAIN account.portfolio
      /\ \A A \in DOMAIN ret.arg :
            DEqual(DMul(ret.arg[A], account.value),
                   DMul(account.portfolio[A], globalPricelist[A])) )
    => \A A \in DOMAIN ret.val : DEqual(ret.val[A].Amount, Zero)

\* C7: an index asset that is priced but not held is a zero position: its
\* trade is a buy of account value * weight / price.  42 ETH at the README
\* prices with five weights of 0.2 gives sell 33.6 ETH, buy 0.84 BTC, buy 5600
\* IOTA, buy 14000 BAT, buy 8400 XLM.
C7_NewAssetIsBought ==
    /\ RebalanceOK =>
         \A A \in DOMAIN ret.arg \ DOMAIN account.portfolio :
            /\ ret.val[A].Action = "buy"
            /\ IsRoundedQuotient(ret.val[A].Amount,
                                 DMul(account.value, ret.arg[A]),
                                 globalPricelist[A])
    /\ NewAssetsAccountRebalanced =>
         /\ IsTrade(ret.val["ETH"], "sell", Dec(336, 1))
         /\ IsTrade(ret.val["BTC"], "buy", Dec(84, 2))
         /\ IsTrade(ret.val["IOTA"], "buy", Dec(5600, 0))
         /\ IsTrade(ret.val["BAT"], "buy", Dec(14000, 0))
         /\ IsTrade(ret.val["XLM"], "buy", Dec(8400, 0))

C7_Witness ==
    /\ NewAssetsAccountRebalanced
    /\ "IOTA" \notin DOMAIN account.portfolio
    /\ IsTrade(ret.val["IOTA"], "buy", Dec(5600, 0))

\* C8: every trade Rebalance returns has a non-negative amount and the action
\* "buy" or "sell".
C8_TradeWellFormed ==
    ret.op = "Rebalance" =>
        \A A \in DOMAIN ret.val :
            /\ ret.val[A].Action \in {"buy", "sell"}
            /\ ~DIsNegative(ret.val[A].Amount)

C8_Witness ==
    /\ RebalanceOK
    /\ \E A \in DOMAIN ret.val :
          /\ ret.val[A].Action = "sell"
          /\ DLessThan(Zero, ret.val[A].Amount)

\* C9: a successful NewAccount keeps the portfolio and stores as value the sum
\* of amount * price over the held assets, at the global pricelist in force;
\* 20 ETH and 0.5 BTC at 200 and 5000 are worth 6500.
C9_AccountValue ==
    (ret.op = "NewAccount" /\ ret.err = Nil) =>
        /\ account.portfolio = ret.arg
        /\ DEqual(account.value, MarketValue(ret.arg, globalPricelist))
        /\ (ret.arg = ReadmePortfolio /\ globalPricelist = ReadmePricelist)
              => DEqual(account.value, Dec(6500, 0))

C9_Witness ==
    /\ ret.op = "NewAccount"
    /\ ret.err = Nil
    /\ ret.arg = ReadmePortfolio
    /\ globalPricelist = ReadmePricelist
    /\ DEqual(account.value, Dec(6500, 0))

\* C10: NewIndex, and so Rebalance, given a non-empty index whose entries all
\* pass the per-entry checks, accepts it when its weights sum to exactly 1 and
\* returns ErrIndexSumIncorrect otherwise.
C10_IndexSumExactlyOne ==
    ( /\ ret.op \in {"NewIndex", "Rebalance"}
      /\ DOMAIN ret.arg # {}
      /\ EntriesPass(ret.arg) )
    => IF Hundredths(ret.arg) = 100
       THEN ret.err = Nil
       ELSE ret.err = ErrIndexSumIncorrect

C10_Witness ==
    /\ ret.op = "NewIndex"
    /\ ret.arg = [a \in UpperAssets |-> Dec(2, 1)]
    /\ EntriesPass(ret.arg)
    /\ ret.err = ErrIndexSumIncorrect

\* The asset names that are their own uppercase form.
UpperNames == {"ETH", "BTC", "IOTA", "BAT", "XLM"}

\* The only thing wrong with m is one key that is not uppercase; with priced,
\* the uppercase keys are also in the global pricelist.
OnlyCaseViolation(m, priced) ==
    /\ Cardinality({a \in DOMAIN m : a \notin UpperNames}) = 1
    /\ \A a \in DOMAIN m : m[a].c > 0
    /\ priced => (DOMAIN m \cap UpperNames) \subseteq DOMAIN globalPricelist

\* The only thing wrong with m is one value that is zero or less.
OnlyAmountViolation(m, priced) ==
    /\ DOMAIN m \subseteq UpperNames
    /\ Cardinality({a \in DOMAIN m : m[a].c <= 0}) = 1
    /\ priced => DOMAIN m \subseteq DOMAIN globalPricelist

OffendingAsset(m) == CHOOSE a \in DOMAIN m : m[a].c <= 0

\* C11: a map whose only violation is one key that is not uppercase is rejected
\* with ErrInvalidAsset by SetPricelist, by NewPortfolio and NewAccount and by
\* NewIndex and Rebalance; nothing is installed or returned for it.
C11_LowercaseKeyRejected ==
    /\ (ret.op = "SetPricelist" /\ OnlyCaseViolation(ret.arg, FALSE))
          => /\ ret.err = ErrInvalidAsset
             /\ globalPricelist # ret.arg
             /\ DOMAIN globalPricelist \subseteq UpperNames
    /\ (ret.op = "NewPortfolio" /\ OnlyCaseViolation(ret.arg, TRUE))
          => ret.err = ErrInvalidAsset /\ ret.val = EmptyMap
    /\ (ret.op = "NewAccount" /\ DOMAIN globalPricelist # {}
                              /\ OnlyCaseViolation(ret.arg, TRUE))
          => ret.err = ErrInvalidAsset /\ account = ZeroAccount
    /\ (ret.op \in {"NewIndex", "Rebalance"} /\ OnlyCaseViolation(ret.arg, TRUE))
          => ret.err = ErrInvalidAsset /\ ret.val = EmptyMap

C11_Witness ==
    /\ ret.op = "Rebalance"
    /\ ret.arg = [a \in {"ETH", "eth"} |-> Dec(5, 1)]
    /\ "ETH" \in DOMAIN globalPricelist
    /\ ret.err = ErrInvalidAsset

\* C12: a map whose only violation is one value that is zero or less is
\* rejected by SetPricelist, by NewPortfolio and NewAccount and by NewIndex and
\* Rebalance with an ErrInvalidAssetAmount that carries that key and that value.
C12_NonPositiveAmountRejected ==
    /\ (ret.op = "SetPricelist" /\ OnlyAmountViolation(ret.arg, FALSE))
          => /\ ret.err = ErrInvalidAssetAmount(OffendingAsset(ret.arg),
                                                ret.arg[OffendingAsset(ret.arg)])
             /\ globalPricelist # ret.arg
    /\ ( /\ ret.op \in {"NewPortfolio", "NewAccount", "NewIndex", "Rebalance"}
         /\ ret.op = "NewAccount" => DOMAIN globalPricelist # {}
         /\ OnlyAmountViolation(ret.arg, TRUE) )
          => /\ ret.err.kind = "ErrInvalidAssetAmount"
             /\ ret.err.asset = OffendingAsset(ret.arg)
             /\ ret.err.amount = ret.arg[OffendingAsset(ret.arg)]

C12_Witness ==
    /\ ret.op = "NewAccount"
    /\ ret.arg = [a \in {"ETH"} |-> Zero]
    /\ "ETH" \in DOMAIN globalPricelist
    /\ ret.err = ErrInvalidAssetAmount("ETH", Zero)

\* The index names an uppercase asset that the global pricelist does not price.
HasMissingAsset(index) ==
    \E a \in DOMAIN index \cap UpperNames : a \notin DOMAIN globalPricelist

\* No entry of the index fails the case check, and no priced entry the
\* positivity check.
NoOtherEntryFails(index) ==
    \A a \in DOMAIN index :
        /\ a \in UpperNames
        /\ a \in DOMAIN globalPricelist => index[a].c > 0

\* C13 as stated: NewIndex and Rebalance reject an index that names an
\* uppercase asset missing from the global pricelist with
\* ErrAssetMissingFromPricelist, and Rebalance returns no trades.
C13_MissingAssetRejected ==
    (ret.op \in {"NewIndex", "Rebalance"} /\ HasMissingAsset(ret.arg))
        => ret.err = ErrAssetMissingFromPricelist /\ ret.val = EmptyMap

\* C13 as amended: such an index is always rejected and nothing is returned
\* for it; the error is ErrAssetMissingFromPricelist when no other entry fails
\* a per-entry check (otherwise the entry the map iteration meets first decides).
C13_MissingAssetRejectedAmended ==
    (ret.op \in {"NewIndex", "Rebalance"} /\ HasMissingAsset(ret.arg))
        => /\ ret.err # Nil
           /\ ret.val = EmptyMap
           /\ NoOtherEntryFails(ret.arg) => ret.err = ErrAssetMissingFromPricelist

C13_Witness ==
    /\ ret.op = "Rebalance"
    /\ ret.arg = [a \in {"XLM"} |-> One]
    /\ DOMAIN globalPricelist # {}
    /\ "XLM" \notin DOMAIN globalPricelist
    /\ ret.err = ErrAssetMissingFromPricelist
    /\ ret.val = EmptyMap

\* C14: holdings construction rejects a holdings map naming an asset that the
\* global pricelist does not price with ErrAssetMissingFromPricelist (here with
\* nothing else wrong in the map), so an account never holds an unpriced asset.
C14_MissingHoldingRejected ==
    /\ ( /\ ret.op \in {"NewHoldings", "balancer.NewAccount"}
         /\ DOMAIN globalPricelist # {}
         /\ HasMissingAsset(ret.arg)
         /\ \A a \in DOMAIN ret.arg : a \in UpperNames /\ ret.arg[a].c > 0 )
          => ret.err = ErrAssetMissingFromPricelist
    /\ (ret.op = "balancer.NewAccount" /\ ret.err = Nil)
          => DOMAIN account.portfolio \subseteq DOMAIN globalPricelist

\* C15: an empty map is rejected with the error of its kind: ErrEmptyPricelist
\* by SetPricelist, ErrEmptyPortfolio by NewPortfolio, ErrEmptyIndex by NewIndex
\* and Rebalance; the three errors differ.
C15_EmptyMapRejected ==
    /\ (ret.op = "SetPricelist" /\ DOMAIN ret.arg = {})
          => ret.err = ErrEmptyPricelist /\ ret.err \notin {ErrEmptyPortfolio, ErrEmptyIndex}
    /\ (ret.op = "NewPortfolio" /\ DOMAIN ret.arg = {})
          => ret.err = ErrEmptyPortfolio /\ ret.err \notin {ErrEmptyPricelist, ErrEmptyIndex}
    /\ (ret.op \in {"NewIndex", "Rebalance"} /\ DOMAIN ret.arg = {})
          => ret.err = ErrEmptyIndex /\ ret.err \notin {ErrEmptyPricelist, ErrEmptyPortfolio}

C15_Witness ==
    /\ ret.op = "Rebalance"
    /\ DOMAIN ret.arg = {}
    /\ DOMAIN globalPricelist # {}
    /\ ret.err = ErrEmptyIndex

\* What NewIndex asks of an index under the global pricelist.
IndexAcceptable(index) ==
    /\ DOMAIN index # {}
    /\ EntriesPass(index)
    /\ Hundredths(index) = 100

\* C16: Rebalance returns an error exactly for the indexes NewIndex rejects
\* under the global pricelist, and then no trade map; for the indexes NewIndex
\* accepts it returns a trade map and a nil error.
C16_RebalanceFailsAsNewIndex ==
    /\ ret.op \in {"NewIndex", "Rebalance"}
          => (ret.err = Nil <=> IndexAcceptable(ret.arg))
    /\ ret.op = "Rebalance"
          => IF IndexAcceptable(ret.arg)
             THEN ret.err = Nil /\ ret.val # EmptyMap
             ELSE ret.err # Nil /\ ret.val = EmptyMap

C16_Witness ==
    /\ ret.op = "Rebalance"
    /\ DOMAIN ret.arg # {}
    /\ ~IndexAcceptable(ret.arg)
    /\ ret.err = ErrIndexSumIncorrect
    /\ ret.val = EmptyMap

\* C18: while the global pricelist is empty NewAccount returns
\* ErrEmptyPricelist and the zero Account whatever the holdings are, also for
\* holdings that NewPortfolio would reject for a reason of their own.
C18_EmptyPricelistFirst ==
    (ret.op = "NewAccount" /\ DOMAIN globalPricelist = {})
        => ret.err = ErrEmptyPricelist /\ account = ZeroAccount

C18_Witness ==
    /\ ret.op = "NewAccount"
    /\ DOMAIN globalPricelist = {}
    /\ DOMAIN ret.arg = {}
    /\ ret.err = ErrEmptyPricelist

\* C17: the global pricelist is empty before any call, a successful
\* SetPricelist makes it the map it was given, ClearGlobalPricelist makes it
\* empty, no other call
\* (a failed SetPricelist included) changes it, and GlobalPricelist() returns
\* it: so GlobalPricelist() returns the map of the most recent successful
\* SetPricelist unless ClearGlobalPricelist ran since, and else the empty map.
C17_GlobalPricelistIsLastSet ==
    [][ /\ ret.op = "init" => globalPricelist = EmptyMap
        /\ (ret'.op = "SetPricelist" /\ ret'.err = Nil)
             => globalPricelist' = ret'.arg
        /\ ret'.op = "ClearGlobalPricelist"
             => globalPricelist' = EmptyMap
        /\ ~(ret'.op = "SetPricelist" /\ ret'.err = Nil)
           /\ ret'.op # "ClearGlobalPricelist"
             => globalPricelist' = globalPricelist
        /\ ret'.op = "GlobalPricelist"
             => ret'.val = globalPricelist ]_vars

C17_Witness ==
    /\ ret.op = "GlobalPricelist"
    /\ ret.val = ReadmePricelist
    /\ globalPricelist = ReadmePricelist

\* C19 as stated: the total value Rebalance uses is the sum of
\* holdings[asset] * price[asset] at the prices now in force.
C19_ValueTracksPrices ==
    (RebalanceOK /\ DOMAIN account.portfolio # {})
        => DEqual(account.value, MarketValue(account.portfolio, globalPricelist))

\* C19 as amended: the total value is derived once: a successful NewAccount
\* sets it to the sum of holdings[asset] * price[asset] at the pricelist then
\* in force, and no other call, SetPricelist included, changes the Account.
C19_ValueFixedAtConstruction ==
    [][ /\ (ret'.op = "NewAccount" /\ ret'.err = Nil)
             => DEqual(account'.value, MarketValue(account'.portfolio, globalPricelist))
        /\ ret'.op # "NewAccount" => account' = account ]_vars

\* Rebalance has used a total value that the prices now in force do not give.
C19_Witness ==
    /\ RebalanceOK
    /\ DOMAIN account.portfolio # {}
    /\ DOMAIN account.portfolio \subseteq DOMAIN globalPricelist
    /\ ~DEqual(account.value, MarketValue(account.portfolio, globalPricelist))

\* C20: every price one Rebalance call reads, in validation and in the
\* calculation, comes from a single pricelist, also when SetPricelist or
\* ClearGlobalPricelist run during the call.
C20_SinglePricelistPerCall ==
    Cardinality(call.seen) <= 1

C22_StoredValueCurrentPrice ==
    [][ /\ ret'.op \in {"SetPricelist", "Rebalance"}
             => account'.value = account.value
        /\ (ret'.op = "Rebalance" /\ ret'.err = Nil)
             => \A A \in DOMAIN ret'.arg :
                    IsRoundedQuotient(
                        DAdd(SignedAmount(ret'.val[A]), Lookup(account.portfolio, A)),
                        DMul(account.value, ret'.arg[A]),
                        globalPricelist'[A]) ]_vars

\* The README account, worth 6500 when it was built, rebalanced to halves
\* after the prices became 3 and 1: 3250 / 3 - 20 ETH and 3250 / 1 - 0.5 BTC.
C22_Witness ==
    /\ RebalanceOK
    /\ account.portfolio = ReadmePortfolio
    /\ DEqual(account.value, Dec(6500, 0))
    /\ globalPricelist = ThirdsPricelist
    /\ ret.arg = [a \in UpperAssets |-> Dec(5, 1)]
    /\ ret.val["ETH"].Action = "buy"
    /\ IsRoundedQuotient(DAdd(ret.val["ETH"].Amount, Dec(20, 0)), Dec(3250, 0), Dec(3, 0))
    /\ IsTrade(ret.val["BTC"], "buy", Dec(32495, 1))

\* C23: Account.Balance of src/balancer.go rejects a target index holding a
\* weight of zero or less with ErrInvalidAssetAmount and emits no trades for
\* it, also when the weights sum to exactly 1 and every key has a price.
C23_BalanceRejectsNonPositive ==
    (/\ ret.op = "Balance"
     /\ AccountCurrent
     /\ DOMAIN ret.arg \subseteq DOMAIN globalPricelist
     /\ Hundredths(ret.arg) = 100
     /\ \E a \in DOMAIN ret.arg : ret.arg[a].c <= 0)
        => /\ ret.err.kind = "ErrInvalidAssetAmount"
           /\ ret.val = EmptyMap

\* C24: an index NewIndex accepts is returned as given, and each of its
\* weights is greater than 0 and at most 1, each of its keys is uppercase and
\* each of its keys has a price in the global pricelist of the moment.
C24_AcceptedIndexWellFormed ==
    (ret.op = "NewIndex" /\ ret.err = Nil)
        => /\ ret.val = ret.arg
           /\ DOMAIN ret.val # {}
           /\ \A a \in DOMAIN ret.val :
                 /\ a \in UpperNames
                 /\ a \in DOMAIN globalPricelist
                 /\ DLessThan(Zero, ret.val[a])
                 /\ ~DLessThan(One, ret.val[a])

C24_Witness ==
    /\ ret.op = "NewIndex"
    /\ ret.err = Nil
    /\ ret.val = [a \in UpperAssets |-> IF a = "ETH" THEN Dec(75, 2) ELSE Dec(25, 2)]
    /\ globalPricelist = ReadmePricelist

\* C25: when calls run one after another, Rebalance divides once for each key
\* of an index NewIndex accepted, and each divisor is an entry the global
\* pricelist has, greater than zero; for a rejected index it divides nothing
\* and returns the error.  It never divides by the zero Decimal of a missing
\* price.
C25_DivisorPricedAndPositive ==
    ret.op = "Rebalance"
        => /\ ret.err # Panic
           /\ ret.err # Nil => ret.val = EmptyMap
           /\ ret.err = Nil =>
                \A A \in DOMAIN ret.arg :
                    /\ A \in DOMAIN globalPricelist
                    /\ DLessThan(Zero, globalPricelist[A])
                    /\ A \in DOMAIN ret.val

\* Rebalance has divided by the five prices of the README's second example,
\* 0.3, 0.12 and 0.2 among them.
C25_Witness ==
    /\ RebalanceOK
    /\ ret.arg = NewAssetsIndex
    /\ globalPricelist = NewAssetsPricelist
    /\ DOMAIN ret.val = NewAssets

\* C26: a SetPricelist given an empty map, a price of zero or less or a key
\* that is not uppercase returns an error, and a SetPricelist that returns an
\* error leaves the global pricelist as it was before the call: the map is
\* installed only when every entry has passed.
C26_FailedSetKeepsPricelist ==
    [][ ret'.op = "SetPricelist"
          => LET invalid == \/ DOMAIN ret'.arg = {}
                            \/ \E a \in DOMAIN ret'.arg :
                                  ret'.arg[a].c <= 0 \/ a \notin UpperNames
             IN  /\ invalid <=> ret'.err # Nil
                 /\ ret'.err # Nil => globalPricelist' = globalPricelist
                 /\ globalPricelist' # globalPricelist => ~invalid ]_vars

\* A refused SetPricelist has left the README pricelist in place.
C26_Witness ==
    /\ ret.op = "SetPricelist"
    /\ ret.err # Nil
    /\ DOMAIN ret.arg # {}
    /\ globalPricelist = ReadmePricelist

\* C27: whatever SetPricelist and ClearGlobalPricelist calls have been made,
\* the global pricelist is empty, or every key of it is uppercase and every
\* price of it is greater than zero.
C27_PricelistValidOrEmpty ==
    \/ globalPricelist = EmptyMap
    \/ \A a \in DOMAIN globalPricelist :
          /\ a \in UpperNames
          /\ DLessThan(Zero, globalPricelist[a])

\* A pricelist with prices below 1 has been installed.
C27_Witness ==
    /\ ret.op = "SetPricelist"
    /\ ret.err = Nil
    /\ globalPricelist = NewAssetsPricelist

C29_SellWithinHolding ==
    RebalanceOK
        => /\ \A A \in DOMAIN ret.val :
                 ret.val[A].Action = "sell"
                    => /\ A \in DOMAIN account.portfolio
                       /\ DCmp(ret.val[A].Amount, account.portfolio[A]) <= 0
           /\ \A A \in DOMAIN ret.val :
                 ~DIsNegative(Execute(ret.val, account.portfolio)[A])

\* Part of a holding, not all of it, is sold.
C29_Witness ==
    /\ RebalanceOK
    /\ \E A \in DOMAIN ret.val \cap DOMAIN account.portfolio :
          /\ ret.val[A].Action = "sell"
          /\ DLessThan(Zero, ret.val[A].Amount)
          /\ DLessThan(ret.val[A].Amount, account.portfolio[A])

\* C30: while the global pricelist is empty, as it is from ClearGlobalPricelist
\* until a SetPricelist succeeds, Rebalance with a non-empty index whose keys
\* are all uppercase returns ErrAssetMissingFromPricelist and no trades,
\* whatever the values of the index are.
C30_ClearedPricelistRejectsIndex ==
    (/\ ret.op = "Rebalance"
     /\ globalPricelist = EmptyMap
     /\ DOMAIN ret.arg # {}
     /\ DOMAIN ret.arg \subseteq UpperNames)
        => /\ ret.err = ErrAssetMissingFromPricelist
           /\ ret.val = EmptyMap

\* The README account, built before the pricelist was cleared, is refused an
\* index that also has a negative weight.
C30_Witness ==
    /\ ret.op = "Rebalance"
    /\ globalPricelist = EmptyMap
    /\ account.portfolio = ReadmePortfolio
    /\ ret.arg = [a \in UpperAssets |-> IF a = "ETH" THEN Dec(15, 1) ELSE Dec(-5, 1)]
    /\ ret.err = ErrAssetMissingFromPricelist

====
